---- MODULE Spec2Model ----
(***************************************************************************)
(* Photo session cache of the slideshow server (playground/server.js,      *)
(* second version, lines 433-1170): token and config files, the in-memory  *)
(* photoCache, refreshCache, the picker confirm route, the delete route,   *)
(* the photo list route and the image proxy with its refresh-and-retry.    *)
(*                                                                         *)
(* Every `await` of a handler is a step boundary: the synchronous code     *)
(* between two awaits is one action.  The vendor (Google) is an input: its *)
(* answers are drawn from small sets.  Time is counted in ticks of 50      *)
(* minutes / CACHE_TTL_MS.  The filename field of a descriptor and the     *)
(* confirmedAt field of the config are written but never read by the       *)
(* server and are left out; so is the value of the access token a handler  *)
(* passes to the vendor, whose answers are inputs whatever the token.      *)
(***************************************************************************)
EXTENDS Integers, Sequences, FiniteSets, TLC

\* ---------------------------------------------------------------- bounds
MaxVendorPages == 2
MaxPageLen == 1
MaxTime == 4
MaxSnapshot == 1
MaxPool == 3
MaxChain == 3
MaxPicks == 2
MaxAdminTime == 6
MaxInFlight == 2
MaxPhotos == 3

\* the admin page's safety timeout of 10 minutes (300 poll periods of 2
\* seconds), counted in poll periods and scaled down
PickTimeout == 3

\* ------------------------------------------------------- program constants
CACHE_TTL_MS == 1
StartTime == CACHE_TTL_MS + 1
maxPages == 5
RandomPick == 50

\* ---------------------------------------------------------- input domains
Procs == {1, 2}
Ids == {"a", "b"}
LocalFiles == {"l.jpg"}
SessionIds == {"s1"}
AccessTokens == {"at1", "at2"}
RefreshTokens == {"rt1", "rt2"}
FetchStatuses == {200, 401, 403, 404, 500}

Range(s) == {s[i] : i \in 1..Len(s)}

SeqsUpTo(S, n) == UNION {[1..k -> S] : k \in 0..n}

\* ------------------------------------------------------------ data shapes
NoFile == [exists |-> FALSE, baseUrl |-> "", mimeType |-> ""]

MediaFiles ==
  { NoFile,
    [exists |-> TRUE, baseUrl |-> "u1", mimeType |-> ""],
    [exists |-> TRUE, baseUrl |-> "u2", mimeType |-> "image/png"] }

RawMediaItems == [id : Ids, mediaFile : MediaFiles]

DriveFiles == [id : Ids, mimeType : {""}]

NoItem == [id |-> "", baseUrl |-> "", mimeType |-> ""]


NoTokens == [exists |-> FALSE, access_token |-> "", refresh_token |-> ""]

NoConfig ==
  [exists |-> FALSE, mode |-> "", sessionId |-> "", hasIds |-> FALSE,
   mediaItemIds |-> <<>>, savedSnapshot |-> <<>>]

EmptyCache == [items |-> <<>>, fetchedAt |-> 0]

\* a page's request for /api/photo/:id as the service worker sees it
NoFetch == [id |-> "", pc |-> "idle", from |-> ""]

\* the service worker of one browser: the ids in the Cache photo-cache-v1,
\* the cache.put calls not yet settled, the ids whose bytes a page has been
\* given since the cache was last deleted, and the fetch events in flight
SwIdle ==
  [cached |-> {}, putting |-> {}, delivered |-> {},
   inflight |-> [c \in Procs |-> NoFetch]]

Picks == 1 .. MaxPicks

\* the admin page: its clock in poll periods, the picks started, the pick
\* button, the shared pollTimer handle (0 is null), the intervals not yet
\* cleared, the 10-minute timeouts not yet fired, and per pick the start of
\* its polling, the polls of the current period, the number of polls in
\* flight, whether a poll has reported mediaItemsSet and the number of
\* confirm requests sent
AdminIdle ==
  [clock |-> 0, picks |-> 0, disabled |-> FALSE, pollTimer |-> 0,
   intervals |-> {}, timeouts |-> {}, polling |-> {},
   startedAt |-> [k \in Picks |-> 0],
   polled |-> {}, inflight |-> [k \in Picks |-> 0], reported |-> {},
   confirms |-> [k \in Picks |-> 0]]

\* no helper call
NoCall == [op |-> ""]

Idle ==
  [op |-> "idle", pc |-> "idle", photoId |-> "", sessionId |-> "",
   item |-> NoItem, refreshedItem |-> NoItem, tokens |-> NoTokens,
   config |-> NoConfig, allItems |-> <<>>, pages |-> 0,
   status |-> 0, unhandled |-> FALSE, respBytes |-> "", respMime |-> "",
   respItems |-> <<>>, respLocal |-> {}, rfOutcome |-> "", fetches |-> 0, refreshes |-> 0,
   firstStatus |-> 0, retryStatus |-> 0, prevDeleted |-> ""]

\* the server process and its files
VARIABLES tokens, config, photoCache, uploads, now, req, lastDeleted

\* the browser side (service worker, admin page) and, in fn, what a
\* specification of one part needs besides: the argument and result of a
\* helper function applied on its own, the session cookie of a browser, or
\* the state of the slideshow page
VARIABLES sw, admin, fn

server == <<tokens, config, photoCache, uploads, now, req, lastDeleted>>

rest == <<sw, admin, fn>>

vars == <<tokens, config, photoCache, uploads, now, req, lastDeleted,
          sw, admin, fn>>

\* ------------------------------------------------------- pure helper code
\* item.mediaFile && item.mediaFile.baseUrl
HasBaseUrl(item) == item.mediaFile.exists /\ item.mediaFile.baseUrl # ""

\* the .map((item) => ({ id, baseUrl, mimeType || "image/jpeg", ... }))
toDescriptor(item) ==
  [id |-> item.id,
   baseUrl |-> item.mediaFile.baseUrl,
   mimeType |-> IF item.mediaFile.mimeType # "" THEN item.mediaFile.mimeType
                ELSE "image/jpeg"]

MapDescriptors(s) == [i \in 1..Len(s) |-> toDescriptor(s[i])]

IdsOf(s) == [i \in 1..Len(s) |-> s[i].id]

\* photoCache.items.find((p) => p.id === photoId): first match or NoItem
findIndex(items, photoId) ==
  IF \E i \in 1..Len(items) : items[i].id = photoId
  THEN CHOOSE i \in 1..Len(items) :
         /\ items[i].id = photoId
         /\ \A j \in 1..(i - 1) : items[j].id # photoId
  ELSE 0

\* variant of find: the first cached descriptor, whatever its id
findFirst(items, photoId) == IF items = <<>> THEN NoItem ELSE items[1]

find(items, photoId) ==
  IF findIndex(items, photoId) = 0 THEN NoItem
  ELSE items[findIndex(items, photoId)]

\* photoCache.items.splice(index, 1)
splice(items, index) ==
  [i \in 1..(Len(items) - 1) |-> IF i < index THEN items[i] ELSE items[i + 1]]

\* config.mediaItemIds.filter((id) => id !== photoId)
filterOut(ids, photoId) == SelectSeq(ids, LAMBDA x : x # photoId)

\* variant of push: the page's items take the place of the list so far
pushReplace(allItems, mediaItems) == mediaItems

\* allItems.push(...result.mediaItems)
push(allItems, mediaItems) == allItems \o mediaItems

\* variant of Allowed: an empty mediaItemIds array counts as no list at all
AllowedNonEmpty(cfg, item) ==
  cfg.mediaItemIds = <<>> \/ item.id \in Range(cfg.mediaItemIds)

\* allowedIds = config.mediaItemIds ? new Set(config.mediaItemIds) : null;
\* an array, empty or not, is truthy
Allowed(cfg, item) == ~cfg.hasIds \/ item.id \in Range(cfg.mediaItemIds)

\* picker branch of refreshCache: the two filters and the map
pickerItems(cfg, mediaItems) ==
  MapDescriptors(
    SelectSeq(SelectSeq(mediaItems, HasBaseUrl), LAMBDA it : Allowed(cfg, it)))

\* confirm route: one filter and the map
confirmItems(mediaItems) == MapDescriptors(SelectSeq(mediaItems, HasBaseUrl))

\* drive branch of refreshCache: rebuild from the stored ids
driveItems(cfg) ==
  [i \in 1..Len(cfg.mediaItemIds) |->
     [id |-> cfg.mediaItemIds[i], baseUrl |-> "drive", mimeType |-> "image/jpeg"]]

\* variant of Swap: arr[j] is copied to arr[i] and arr[i] is lost
SwapCopy(arr, i, j) == [arr EXCEPT ![i] = arr[j]]

\* Fisher-Yates: for i from the last index down to the second, swap arr[i]
\* with arr[j], j = draws[i] drawn from the indices up to i
Swap(arr, i, j) == [arr EXCEPT ![i] = arr[j], ![j] = arr[i]]

RECURSIVE shuffleLoop(_, _, _)
shuffleLoop(arr, i, draws) ==
  IF i < 2 THEN arr ELSE shuffleLoop(Swap(arr, i, draws[i]), i - 1, draws)

shuffleArray(arr, draws) == shuffleLoop(arr, Len(arr), draws)

Draws(n) == {d \in [2..n -> 1..n] : \A i \in 2..n : d[i] <= i}

\* .slice(0, n)
slice(s, n) == SubSeq(s, 1, IF Len(s) < n THEN Len(s) ELSE n)

\* random route: shuffleArray(allFiles).slice(0, 50)
randomSelection(allFiles, draws) == slice(shuffleArray(allFiles, draws), RandomPick)

\* random route: the map over the selected Drive files
randomItems(selected) ==
  [i \in 1..Len(selected) |->
     [id |-> selected[i].id, baseUrl |-> "drive",
      mimeType |-> IF selected[i].mimeType # "" THEN selected[i].mimeType
                   ELSE "image/jpeg"]]

\* variant of onRefreshError: the catch clears the cache
onRefreshErrorClears(cache) == [items |-> <<>>, fetchedAt |-> 0]

\* variant of onRefreshError: the catch keeps the items and drops the stamp
onRefreshErrorUnstamps(cache) == [cache EXCEPT !.fetchedAt = 0]

\* catch (err) of refreshCache: "Keep stale cache rather than clearing"
onRefreshError(cache) == cache

\* variant of baseUrlExpired: every failing status counts as an expired URL
anyFailureExpired(status) == status # 200

\* response.status === 403 || response.status === 401
baseUrlExpired(status) == status = 403 \/ status = 401

\* the body the vendor serves at a URL when the fetch succeeds
BytesAt(url) ==
  CASE url = "u1" -> "B1" [] url = "u2" -> "B2" [] OTHER -> "B3"

\* variant of isCacheStale: stale from the TTL on, not only beyond it
isCacheStaleAtTTL == now - photoCache.fetchedAt >= CACHE_TTL_MS

\* Date.now() - photoCache.fetchedAt > CACHE_TTL_MS
isCacheStale == now - photoCache.fetchedAt > CACHE_TTL_MS

\* the stamp written with a new item list
Stamp(items) == [items |-> items, fetchedAt |-> now]

\* { ...tokens, ...newTokens }: a field of newTokens that is present wins
mergeTokens(old, new) ==
  [exists |-> TRUE,
   access_token |-> IF new.access_token # "" THEN new.access_token ELSE old.access_token,
   refresh_token |-> IF new.refresh_token # "" THEN new.refresh_token ELSE old.refresh_token]

NoDuplicateIds(items) ==
  \A i, j \in 1..Len(items) : items[i].id = items[j].id => i = j

\* ------------------------------------------------------------------ state
InitRest ==
  /\ sw = SwIdle
  /\ admin = AdminIdle
  /\ fn = NoCall

InitServer ==
  /\ tokens = NoTokens
  /\ config = NoConfig
  /\ photoCache = EmptyCache
  /\ uploads = {}
  /\ now = StartTime
  /\ req = [p \in Procs |-> Idle]
  /\ lastDeleted = ""

Init == InitServer /\ InitRest

New(op) == [Idle EXCEPT !.op = op]

Set(p, r) == req' = [req EXCEPT ![p] = r]

Done(r, status) == [r EXCEPT !.pc = "done", !.status = status]

\* the caller's code after `await refreshCache()` has settled; r.rfOutcome
\* says how, cache is photoCache as refreshCache left it
AfterRefresh(r, cache) ==
  CASE r.op = "resolve" ->
         IF r.rfOutcome = "raised" THEN Done(r, 500)
         ELSE IF find(cache.items, r.photoId) # NoItem
              THEN [r EXCEPT !.pc = "rs_retry",
                             !.refreshedItem = find(cache.items, r.photoId),
                             !.fetches = @ + 1]
              ELSE Done(r, r.firstStatus)
    [] r.op = "list" ->
         IF r.rfOutcome = "raised" THEN [Done(r, 0) EXCEPT !.unhandled = TRUE]
         ELSE [Done(r, 200) EXCEPT !.respItems = IdsOf(cache.items),
                                   !.respLocal = uploads]
    [] OTHER ->
         IF r.rfOutcome = "raised" THEN [Done(r, 0) EXCEPT !.unhandled = TRUE]
         ELSE Done(r, 0)

\* variant of refreshCache: without a config the cache is left as it is
refreshCacheKeeps(p, r) ==
  IF ~config.exists
  THEN /\ photoCache' = photoCache
       /\ Set(p, AfterRefresh([r EXCEPT !.rfOutcome = "no_config",
                                        !.refreshes = @ + 1], photoCache))
  ELSE /\ photoCache' = photoCache
       /\ Set(p, [r EXCEPT !.pc = "rf_token", !.config = config,
                           !.tokens = tokens, !.refreshes = @ + 1])

\* refreshCache up to its first real await: loadConfig, the !config reset,
\* and the synchronous head of getAccessToken (loadTokens)
refreshCache(p, r) ==
  IF ~config.exists
  THEN /\ photoCache' = EmptyCache
       /\ Set(p, AfterRefresh([r EXCEPT !.rfOutcome = "no_config",
                                        !.refreshes = @ + 1], EmptyCache))
  ELSE /\ photoCache' = photoCache
       /\ Set(p, [r EXCEPT !.pc = "rf_token", !.config = config,
                           !.tokens = tokens, !.refreshes = @ + 1])

\* client.getAccessToken() for a client created from the token set t:
\* no token file -> null; else the stored token, a renewed one (the
\* "tokens" event saves the merged set), or a rejection; a renewal answer
\* carries a new access token and a new refresh token or none
getAccessToken(t) ==
  IF ~t.exists THEN {[tok |-> "null", renewed |-> FALSE, saved |-> NoTokens]}
  ELSE {[tok |-> t.access_token, renewed |-> FALSE, saved |-> NoTokens],
        [tok |-> "throw", renewed |-> FALSE, saved |-> NoTokens]}
       \cup
       {[tok |-> at, renewed |-> TRUE,
         saved |-> mergeTokens(t, [access_token |-> at, refresh_token |-> rt])] :
          at \in AccessTokens \ {t.access_token},
          rt \in (RefreshTokens \ {t.refresh_token}) \cup {""}}

\* the token file after the call: a renewal has saved the merged set
saveTokens(o) == IF o.renewed THEN o.saved ELSE tokens

Tick ==
  /\ now < MaxTime
  /\ now' = now + 1
  /\ UNCHANGED <<tokens, config, photoCache, uploads, req, lastDeleted>>
  /\ UNCHANGED rest

Return(p) ==
  /\ req[p].pc = "done"
  /\ Set(p, Idle)
  /\ UNCHANGED <<tokens, config, photoCache, uploads, now, lastDeleted>>
  /\ UNCHANGED rest

\* POST /api/upload
Upload(p, f) ==
  /\ req[p].pc = "idle"
  /\ f \notin uploads
  /\ uploads' = uploads \cup {f}
  /\ Set(p, Done(New("upload"), 200))
  /\ lastDeleted' = ""
  /\ UNCHANGED <<tokens, config, photoCache, now>>
  /\ UNCHANGED rest

\* GET /auth/callback
OAuthCallback(p) ==
  /\ req[p].pc = "idle"
  /\ \/ \E at \in AccessTokens, rt \in RefreshTokens :
          /\ tokens' = [exists |-> TRUE, access_token |-> at, refresh_token |-> rt]
          /\ Set(p, Done(New("callback"), 302))
     \/ /\ tokens' = tokens
        /\ Set(p, Done(New("callback"), 400))
  /\ lastDeleted' = ""
  /\ UNCHANGED <<config, photoCache, uploads, now>>
  /\ UNCHANGED rest

\* variant of Disconnect: the files are removed, the memory cache is kept
DisconnectKeepsCache(p) ==
  /\ req[p].pc = "idle"
  /\ tokens' = NoTokens
  /\ config' = NoConfig
  /\ Set(p, Done(New("disconnect"), 200))
  /\ lastDeleted' = ""
  /\ UNCHANGED <<photoCache, uploads, now>>
  /\ UNCHANGED rest

\* POST /auth/disconnect
Disconnect(p) ==
  /\ req[p].pc = "idle"
  /\ tokens' = NoTokens
  /\ config' = NoConfig
  /\ photoCache' = EmptyCache
  /\ Set(p, Done(New("disconnect"), 200))
  /\ lastDeleted' = ""
  /\ UNCHANGED <<uploads, now>>
  /\ UNCHANGED rest

\* DELETE /api/photos/:id
Delete(p, photoId) ==
  /\ req[p].pc = "idle"
  /\ LET r == [New("delete") EXCEPT !.photoId = photoId,
                                    !.prevDeleted = lastDeleted]
         index == findIndex(photoCache.items, photoId)
     IN IF photoId \in uploads
        THEN /\ uploads' = uploads \ {photoId}
             /\ Set(p, Done(r, 200))
             /\ lastDeleted' = photoId
             /\ UNCHANGED <<photoCache, config>>
        ELSE IF index = 0
        THEN /\ Set(p, Done(r, 404))
             /\ lastDeleted' = ""
             /\ UNCHANGED <<photoCache, config, uploads>>
        ELSE /\ photoCache' = [photoCache EXCEPT !.items = splice(@, index)]
             /\ UNCHANGED uploads
             /\ IF ~config.exists
                THEN /\ UNCHANGED config
                     /\ Set(p, Done(r, 200))
                     /\ lastDeleted' = photoId
                ELSE IF ~config.hasIds
                THEN \* undefined.filter throws after the splice
                     /\ UNCHANGED config
                     /\ Set(p, Done(r, 500))
                     /\ lastDeleted' = ""
                ELSE /\ config' = [config EXCEPT
                                     !.mediaItemIds = filterOut(@, photoId)]
                     /\ Set(p, Done(r, 200))
                     /\ lastDeleted' = photoId
  /\ UNCHANGED <<tokens, now>>
  /\ UNCHANGED rest

\* a restore without the guard on the cache: the snapshot always wins
RestoreOverwrites(p, snapshot) ==
  /\ req[p].pc = "idle"
  /\ photoCache' = Stamp(snapshot)
  /\ config' = [config EXCEPT !.exists = TRUE, !.savedSnapshot = snapshot]
  /\ Set(p, Done(New("restore"), 200))
  /\ lastDeleted' = ""
  /\ UNCHANGED <<tokens, uploads, now>>
  /\ UNCHANGED rest

\* POST /api/photos/restore: applied only to an empty cache; the restored
\* set is persisted in the config document
Restore(p, snapshot) ==
  /\ req[p].pc = "idle"
  /\ IF photoCache.items # <<>>
     THEN UNCHANGED <<photoCache, config>>
     ELSE /\ photoCache' = Stamp(snapshot)
          /\ config' = [config EXCEPT !.exists = TRUE,
                                      !.savedSnapshot = snapshot]
  /\ Set(p, Done(New("restore"), 200))
  /\ lastDeleted' = ""
  /\ UNCHANGED <<tokens, uploads, now>>
  /\ UNCHANGED rest

\* process restart: module state is rebuilt, the files stay, and the
\* app.listen callback refreshes when both files exist
Startup(p) ==
  /\ req[p].pc = "idle"
  /\ lastDeleted' = ""
  /\ IF tokens.exists /\ config.exists
     THEN /\ Set(p, [New("startup") EXCEPT !.pc = "rf_token", !.config = config,
                                           !.tokens = tokens, !.refreshes = 1])
          /\ photoCache' = EmptyCache
     ELSE /\ Set(p, Done(New("startup"), 0))
          /\ photoCache' = EmptyCache
  /\ UNCHANGED <<tokens, config, uploads, now>>
  /\ UNCHANGED rest

\* GET /api/photos
ListPhotos(p) ==
  /\ req[p].pc = "idle"
  /\ lastDeleted' = ""
  /\ IF isCacheStale /\ config.exists
     THEN refreshCache(p, New("list"))
     ELSE /\ Set(p, [Done(New("list"), 200) EXCEPT
                       !.respItems = IdsOf(photoCache.items),
                       !.respLocal = uploads])
          /\ UNCHANGED photoCache
  /\ UNCHANGED <<tokens, config, uploads, now>>
  /\ UNCHANGED rest

\* refreshCache after `await getAccessToken()`: the !accessToken reset, the
\* drive branch, the !config.sessionId reset, or the first page request
RefreshToken(p) ==
  /\ req[p].pc = "rf_token"
  /\ LET r == [req[p] EXCEPT !.tokens = NoTokens]
         K(tok) ==
           IF tok = "throw"
           THEN /\ UNCHANGED photoCache
                /\ Set(p, AfterRefresh([r EXCEPT !.rfOutcome = "raised"], photoCache))
           ELSE IF tok = "null"
           THEN /\ photoCache' = EmptyCache
                /\ Set(p, AfterRefresh([r EXCEPT !.rfOutcome = "no_token"], EmptyCache))
           ELSE IF r.config.mode = "drive"
           THEN /\ photoCache' = Stamp(driveItems(r.config))
                /\ Set(p, AfterRefresh([r EXCEPT !.rfOutcome = "drive"],
                                       Stamp(driveItems(r.config))))
           ELSE IF r.config.sessionId = ""
           THEN /\ photoCache' = EmptyCache
                /\ Set(p, AfterRefresh([r EXCEPT !.rfOutcome = "no_session"], EmptyCache))
           ELSE /\ UNCHANGED photoCache
                /\ Set(p, [r EXCEPT !.pc = "rf_pages", !.allItems = <<>>, !.pages = 1])
     IN \E o \in getAccessToken(req[p].tokens) : tokens' = saveTokens(o) /\ K(o.tok)
  /\ UNCHANGED <<config, uploads, now, lastDeleted>>
  /\ UNCHANGED rest

\* one answer to getPickerMediaItems inside fetchAllMediaItems, called by
\* refreshCache: a failure is caught and the cache kept; a page with a
\* nextPageToken asks for the next one; the last page replaces the cache
RefreshPage(p) ==
  /\ req[p].pc = "rf_pages"
  /\ LET r == req[p] IN
     \/ /\ photoCache' = onRefreshError(photoCache)
        /\ Set(p, AfterRefresh([r EXCEPT !.rfOutcome = "vendor_failed"],
                               onRefreshError(photoCache)))
     \/ \E page \in SeqsUpTo(RawMediaItems, MaxPageLen) :
          \/ /\ r.pages < MaxVendorPages
             /\ Set(p, [r EXCEPT !.allItems = push(@, page), !.pages = @ + 1])
             /\ UNCHANGED photoCache
          \/ LET cache == Stamp(pickerItems(r.config, push(r.allItems, page))) IN
             /\ photoCache' = cache
             /\ Set(p, AfterRefresh([r EXCEPT !.allItems = push(@, page),
                                              !.rfOutcome = "ok"], cache))
  /\ UNCHANGED <<tokens, config, uploads, now, lastDeleted>>
  /\ UNCHANGED rest

\* POST /api/picker/confirm up to `await getAccessToken()`
Confirm(p, sessionId) ==
  /\ req[p].pc = "idle"
  /\ lastDeleted' = ""
  /\ LET r == [New("confirm") EXCEPT !.sessionId = sessionId] IN
     IF sessionId = "" THEN Set(p, Done(r, 400))
     ELSE Set(p, [r EXCEPT !.pc = "cf_token", !.tokens = tokens])
  /\ UNCHANGED <<tokens, config, photoCache, uploads, now>>
  /\ UNCHANGED rest

ConfirmToken(p) ==
  /\ req[p].pc = "cf_token"
  /\ LET r == req[p]
         c == [r EXCEPT !.tokens = NoTokens]
         K(tok) ==
           IF tok = "throw" THEN Set(p, Done(c, 500))
           ELSE IF tok = "null" THEN Set(p, Done(c, 401))
           ELSE Set(p, [r EXCEPT !.pc = "cf_pages", !.tokens = NoTokens,
                                 !.allItems = <<>>, !.pages = 1])
     IN \E o \in getAccessToken(r.tokens) : tokens' = saveTokens(o) /\ K(o.tok)
  /\ UNCHANGED <<config, photoCache, uploads, now, lastDeleted>>
  /\ UNCHANGED rest

\* variant of ConfirmPage: a failing page empties the cache
ConfirmPageClearsOnFailure(p) ==
  /\ req[p].pc = "cf_pages"
  /\ LET r == req[p] IN
     \/ /\ Set(p, Done(r, 500))
        /\ photoCache' = EmptyCache
        /\ UNCHANGED config
     \/ \E page \in SeqsUpTo(RawMediaItems, MaxPageLen) :
          \/ /\ r.pages < MaxVendorPages
             /\ Set(p, [r EXCEPT !.allItems = push(@, page), !.pages = @ + 1])
             /\ UNCHANGED <<config, photoCache>>
          \/ LET mediaItems == push(r.allItems, page) IN
             /\ config' = [exists |-> TRUE, mode |-> "", sessionId |-> r.sessionId,
                           hasIds |-> TRUE, mediaItemIds |-> IdsOf(mediaItems),
                           savedSnapshot |-> <<>>]
             /\ photoCache' = Stamp(confirmItems(mediaItems))
             /\ Set(p, [Done(r, 200) EXCEPT !.allItems = mediaItems])
  /\ UNCHANGED <<tokens, uploads, now, lastDeleted>>
  /\ UNCHANGED rest

\* one answer to getPickerMediaItems inside fetchAllMediaItems, called by
\* the confirm route; the last page saves the config and fills the cache
ConfirmPage(p) ==
  /\ req[p].pc = "cf_pages"
  /\ LET r == req[p] IN
     \/ /\ Set(p, Done(r, 500))
        /\ UNCHANGED <<config, photoCache>>
     \/ \E page \in SeqsUpTo(RawMediaItems, MaxPageLen) :
          \/ /\ r.pages < MaxVendorPages
             /\ Set(p, [r EXCEPT !.allItems = push(@, page), !.pages = @ + 1])
             /\ UNCHANGED <<config, photoCache>>
          \/ LET mediaItems == push(r.allItems, page) IN
             /\ config' = [exists |-> TRUE, mode |-> "", sessionId |-> r.sessionId,
                           hasIds |-> TRUE, mediaItemIds |-> IdsOf(mediaItems),
                           savedSnapshot |-> <<>>]
             /\ photoCache' = Stamp(confirmItems(mediaItems))
             /\ Set(p, [Done(r, 200) EXCEPT !.allItems = mediaItems])
  /\ UNCHANGED <<tokens, uploads, now, lastDeleted>>
  /\ UNCHANGED rest

\* GET /api/photo/:id up to `await getAccessToken()`
Resolve(p, photoId) ==
  /\ req[p].pc = "idle"
  /\ lastDeleted' = ""
  /\ LET r == [New("resolve") EXCEPT !.photoId = photoId,
                                     !.item = find(photoCache.items, photoId)]
     IN IF r.item = NoItem THEN Set(p, Done(r, 404))
        ELSE Set(p, [r EXCEPT !.pc = "rs_token", !.tokens = tokens])
  /\ UNCHANGED <<tokens, config, photoCache, uploads, now>>
  /\ UNCHANGED rest

ResolveToken(p) ==
  /\ req[p].pc = "rs_token"
  /\ LET r == req[p]
         c == [r EXCEPT !.tokens = NoTokens]
         K(tok) ==
           IF tok = "throw" THEN Set(p, Done(c, 500))
           ELSE IF tok = "null" THEN Set(p, Done(c, 401))
           ELSE Set(p, [r EXCEPT !.pc = "rs_fetch", !.tokens = NoTokens,
                                 !.fetches = 1])
     IN \E o \in getAccessToken(r.tokens) : tokens' = saveTokens(o) /\ K(o.tok)
  /\ UNCHANGED <<config, photoCache, uploads, now, lastDeleted>>
  /\ UNCHANGED rest

\* the answer to the first fetch of the image bytes
ResolveFetch(p) ==
  /\ req[p].pc = "rs_fetch"
  /\ LET r == req[p] IN
     \/ /\ Set(p, Done(r, 500))
        /\ UNCHANGED photoCache
     \/ /\ Set(p, [Done(r, 200) EXCEPT !.firstStatus = 200,
                                         !.respMime = r.item.mimeType,
                                         !.respBytes = BytesAt(r.item.baseUrl)])
        /\ UNCHANGED photoCache
     \/ \E st \in FetchStatuses \ {200} :
          IF baseUrlExpired(st)
          THEN refreshCache(p, [r EXCEPT !.firstStatus = st])
          ELSE /\ Set(p, [Done(r, st) EXCEPT !.firstStatus = st])
               /\ UNCHANGED photoCache
  /\ UNCHANGED <<tokens, config, uploads, now, lastDeleted>>
  /\ UNCHANGED rest

\* the answer to the retried fetch
ResolveRetry(p) ==
  /\ req[p].pc = "rs_retry"
  /\ LET r == [req[p] EXCEPT !.allItems = <<>>, !.config = NoConfig,
                             !.rfOutcome = ""] IN
     \/ Set(p, Done(r, 500))
     \/ Set(p, [Done(r, 200) EXCEPT !.retryStatus = 200,
                                    !.respMime = r.refreshedItem.mimeType,
                                    !.respBytes = BytesAt(r.refreshedItem.baseUrl)])
     \/ \E st \in FetchStatuses \ {200} :
          Set(p, [Done(r, r.firstStatus) EXCEPT !.retryStatus = st])
  /\ UNCHANGED <<tokens, config, photoCache, uploads, now, lastDeleted>>
  /\ UNCHANGED rest

\* POST /api/library/random up to `await getAccessToken()`
Random(p) ==
  /\ req[p].pc = "idle"
  /\ lastDeleted' = ""
  /\ Set(p, [New("random") EXCEPT !.pc = "rd_token", !.tokens = tokens])
  /\ UNCHANGED <<tokens, config, photoCache, uploads, now>>
  /\ UNCHANGED rest

RandomToken(p) ==
  /\ req[p].pc = "rd_token"
  /\ LET r == req[p]
         c == [r EXCEPT !.tokens = NoTokens]
         K(tok) ==
           IF tok = "throw" THEN Set(p, Done(c, 500))
           ELSE IF tok = "null" THEN Set(p, Done(c, 401))
           ELSE Set(p, [r EXCEPT !.pc = "rd_pages", !.tokens = NoTokens,
                                 !.allItems = <<>>, !.pages = 1])
     IN \E o \in getAccessToken(r.tokens) : tokens' = saveTokens(o) /\ K(o.tok)
  /\ UNCHANGED <<config, photoCache, uploads, now, lastDeleted>>
  /\ UNCHANGED rest

\* one answer to listDrivePhotos; after the last page an empty list asks
\* for the debug listing, a non-empty one is shuffled, cut and stored
RandomPage(p) ==
  /\ req[p].pc = "rd_pages"
  /\ LET r == req[p] IN
     \/ /\ Set(p, Done(r, 500))
        /\ UNCHANGED <<config, photoCache>>
     \/ \E page \in SeqsUpTo(DriveFiles, MaxPageLen) :
          \/ /\ r.pages < MaxVendorPages
             /\ r.pages < maxPages
             /\ Set(p, [r EXCEPT !.allItems = push(@, page), !.pages = @ + 1])
             /\ UNCHANGED <<config, photoCache>>
          \/ LET allFiles == push(r.allItems, page) IN
             IF Len(allFiles) = 0
             THEN /\ Set(p, [r EXCEPT !.pc = "rd_debug"])
                  /\ UNCHANGED <<config, photoCache>>
             ELSE \E draws \in Draws(Len(allFiles)) :
                    LET selected == randomSelection(allFiles, draws) IN
                    /\ config' = [exists |-> TRUE, mode |-> "drive", sessionId |-> "",
                                  hasIds |-> TRUE, mediaItemIds |-> IdsOf(selected),
                                  savedSnapshot |-> <<>>]
                    /\ photoCache' = Stamp(randomItems(selected))
                           /\ Set(p, [Done(r, 200) EXCEPT !.allItems = allFiles])
  /\ UNCHANGED <<tokens, uploads, now, lastDeleted>>
  /\ UNCHANGED rest

\* the answer to the debug listing: 404, or 500 when it cannot be read
RandomDebug(p) ==
  /\ req[p].pc = "rd_debug"
  /\ \E st \in {404, 500} : Set(p, Done(req[p], st))
  /\ UNCHANGED <<tokens, config, photoCache, uploads, now, lastDeleted>>
  /\ UNCHANGED rest

\* ------------------------------------------------- service worker (sw.js)
\* fetch event for /api/photo/id, at the answer of caches.match: a hit is
\* the response, a miss sends the request on to the server
SwFetch(c, id) ==
  /\ sw.inflight[c].pc = "idle"
  /\ sw' = [sw EXCEPT !.inflight[c] =
              IF id \in sw.cached
              THEN [id |-> id, pc |-> "done", from |-> "cache"]
              ELSE [id |-> id, pc |-> "network", from |-> ""]]
  /\ UNCHANGED <<server, admin, fn>>

\* the server's answer to the request sent on: an ok answer (the proxy has
\* fetched the bytes from the vendor) is handed to the page at once while
\* cache.put is started and not awaited; another answer is handed on as is
SwResponse(c) ==
  /\ sw.inflight[c].pc = "network"
  /\ \E ok \in BOOLEAN :
       sw' = [sw EXCEPT
                !.inflight[c] = [@ EXCEPT !.pc = "done",
                                          !.from = IF ok THEN "vendor" ELSE "error"],
                !.putting = IF ok THEN @ \cup {sw.inflight[c].id} ELSE @,
                !.delivered = IF ok THEN @ \cup {sw.inflight[c].id} ELSE @]
  /\ UNCHANGED <<server, admin, fn>>

\* a cache.put settles
SwPut(id) ==
  /\ id \in sw.putting
  /\ sw' = [sw EXCEPT !.putting = @ \ {id}, !.cached = @ \cup {id}]
  /\ UNCHANGED <<server, admin, fn>>

\* caches.delete("photo-cache-v1"): the clear message, or the admin page
\* after a disconnect or a new selection
SwClear ==
  /\ sw' = [sw EXCEPT !.cached = {}, !.delivered = {}]
  /\ UNCHANGED <<server, admin, fn>>

\* the page has its response
SwDone(c) ==
  /\ sw.inflight[c].pc = "done"
  /\ sw' = [sw EXCEPT !.inflight[c] = NoFetch]
  /\ UNCHANGED <<server, admin, fn>>

NextWorker ==
  \/ \E c \in Procs : \/ \E id \in Ids : SwFetch(c, id)
                      \/ SwResponse(c)
                      \/ SwDone(c)
  \/ \E id \in Ids : SwPut(id)
  \/ SwClear

SpecWorker == Init /\ [][NextWorker]_vars

\* ------------------------------------------------ admin page, pick button
\* clearInterval(pollTimer); pollTimer = null
clearPollTimer(a) ==
  [a EXCEPT !.intervals = @ \ {a.pollTimer}, !.pollTimer = 0]

\* click on the pick button: the session is created and, when that worked
\* and the popup opened, setInterval and the 10-minute setTimeout are set
PickClick ==
  /\ ~admin.disabled
  /\ admin.picks < MaxPicks
  /\ admin.clock + PickTimeout <= MaxAdminTime
  /\ LET k == admin.picks + 1 IN
     \E outcome \in {"polling", "session_failed", "popup_blocked"} :
       admin' = IF outcome = "polling"
                THEN [admin EXCEPT !.picks = k, !.disabled = TRUE,
                                   !.pollTimer = k,
                                   !.intervals = @ \cup {k},
                                   !.timeouts = @ \cup {k},
                                   !.polling = @ \cup {k},
                                   !.startedAt[k] = admin.clock]
                ELSE [admin EXCEPT !.picks = k, !.disabled = FALSE]
  /\ UNCHANGED <<server, sw, fn>>

\* the interval of pick k fires: GET /api/picker/session/id is sent,
\* whether or not earlier polls have been answered
PollSend(k) ==
  /\ k \in admin.intervals
  /\ k \notin admin.polled
  /\ admin.inflight[k] < MaxInFlight
  /\ admin' = [admin EXCEPT !.polled = @ \cup {k}, !.inflight[k] = @ + 1]
  /\ UNCHANGED <<server, sw, fn>>

\* the poll's answer: an error is swallowed, mediaItemsSet false does
\* nothing, mediaItemsSet true clears pollTimer and confirms the selection;
\* the button is enabled again unless the confirm request throws
PollAnswer(k) ==
  /\ admin.inflight[k] > 0
  /\ \E outcome \in {"error", "waiting", "set", "set_confirm_throws"} :
       LET a == [admin EXCEPT !.inflight[k] = @ - 1] IN
       admin' = CASE outcome \in {"error", "waiting"} -> a
                  [] outcome = "set" ->
                       [clearPollTimer(a) EXCEPT !.reported = @ \cup {k},
                                                 !.confirms[k] = @ + 1,
                                                 !.disabled = FALSE]
                  [] OTHER ->
                       [clearPollTimer(a) EXCEPT !.reported = @ \cup {k},
                                                 !.confirms[k] = @ + 1]
  /\ UNCHANGED <<server, sw, fn>>

\* the setTimeout of pick k fires, 10 minutes after it was set
PickTimedOut(k) ==
  /\ k \in admin.timeouts
  /\ admin.clock >= admin.startedAt[k] + PickTimeout
  /\ LET a == [admin EXCEPT !.timeouts = @ \ {k}] IN
     admin' = IF a.pollTimer # 0
              THEN [clearPollTimer(a) EXCEPT !.disabled = FALSE]
              ELSE a
  /\ UNCHANGED <<server, sw, fn>>

\* one poll period passes: every interval still set has fired in it and no
\* timeout is overdue
AdminTick ==
  /\ admin.clock < MaxAdminTime
  /\ admin.intervals \subseteq admin.polled
  /\ \A k \in admin.timeouts : admin.clock < admin.startedAt[k] + PickTimeout
  /\ admin' = [admin EXCEPT !.clock = @ + 1, !.polled = {}]
  /\ UNCHANGED <<server, sw, fn>>

NextAdmin ==
  \/ PickClick
  \/ \E k \in Picks : PollSend(k) \/ PollAnswer(k) \/ PickTimedOut(k)
  \/ AdminTick

SpecAdmin == Init /\ [][NextAdmin]_vars

\* the browser runs its timers and the server answers every request of the
\* page, with an answer or an error
AdminFairness ==
  /\ WF_vars(AdminTick)
  /\ \A k \in Picks :
       WF_vars(PollSend(k)) /\ WF_vars(PollAnswer(k)) /\ WF_vars(PickTimedOut(k))

SpecAdminLive == Init /\ [][NextAdmin]_vars /\ AdminFairness

\* ------------------------------------------------ slideshow page (slideshow.js)
\* timer handles; a handle is free again once its timer has fired or has
\* been cleared, and advanceTimer is -1 when it names a timer that fired
Handles == {1, 2}

\* the page after its script has run up to `await fetchPhotos()` in init
SlideshowStart ==
  [op |-> "slideshow", photos |-> 0, currentIndex |-> -1, paused |-> FALSE,
   advanceTimer |-> 0, timers |-> {}, initPc |-> "fetching", polling |-> FALSE]

\* clearTimeout(advanceTimer)
clearTimeout(st) == [st EXCEPT !.timers = @ \ {st.advanceTimer}]

\* scheduleNext()
scheduleNext(st) ==
  LET c == clearTimeout(st)
      h == CHOOSE x \in Handles \ c.timers : TRUE
  IN IF ~c.paused
     THEN [c EXCEPT !.advanceTimer = h, !.timers = @ \cup {h}]
     ELSE c

\* showNext()
showNext(st) ==
  IF st.photos = 0 THEN st
  ELSE scheduleNext([st EXCEPT !.currentIndex = (@ + 1) % st.photos])

\* init after `await fetchPhotos()`: the list has n photos
InitFetched(n) ==
  /\ fn.initPc = "fetching"
  /\ fn' = LET st == [fn EXCEPT !.photos = n, !.initPc = "running"]
           IN IF n > 0 THEN showNext(st) ELSE st
  /\ UNCHANGED <<server, sw, admin>>

\* click: pause or resume
Tap ==
  /\ fn' = LET st == [fn EXCEPT !.paused = ~@]
           IN IF st.paused THEN clearTimeout(st) ELSE scheduleNext(st)
  /\ UNCHANGED <<server, sw, admin>>

\* the advance timer h fires: showNext
AdvanceFires(h) ==
  /\ h \in fn.timers
  /\ fn' = showNext([fn EXCEPT !.timers = @ \ {h},
                               !.advanceTimer = IF @ = h THEN -1 ELSE @])
  /\ UNCHANGED <<server, sw, admin>>

\* the 30-second interval fires: fetchPhotos is called
PollStart ==
  /\ fn.initPc = "running"
  /\ ~fn.polling
  /\ fn' = [fn EXCEPT !.polling = TRUE]
  /\ UNCHANGED <<server, sw, admin>>

\* the poll's fetchPhotos has returned with n photos; a slideshow that has
\* not started yet is started
PollFetched(n) ==
  /\ fn.polling
  /\ fn' = LET st == [fn EXCEPT !.photos = n, !.polling = FALSE]
           IN IF st.photos > 0 /\ st.currentIndex = -1 THEN showNext(st) ELSE st
  /\ UNCHANGED <<server, sw, admin>>

InitSlideshow ==
  /\ InitServer
  /\ sw = SwIdle
  /\ admin = AdminIdle
  /\ fn = SlideshowStart

NextSlideshow ==
  \/ \E n \in 0..MaxPhotos : InitFetched(n)
  \/ Tap
  \/ \E h \in Handles : AdvanceFires(h)
  \/ PollStart
  \/ \E n \in 0..MaxPhotos : PollFetched(n)

SpecSlideshow == InitSlideshow /\ [][NextSlideshow]_vars

\* ------------------------------------------- shuffleArray applied on its own
PoolIds == {"a", "b", "c"}

PoolFiles == [id : PoolIds, mimeType : {""}]

\* a pool of Drive files has been listed
InitShuffle ==
  /\ InitServer
  /\ sw = SwIdle
  /\ admin = AdminIdle
  /\ \E arr \in SeqsUpTo(PoolFiles, MaxPool) :
       fn = [op |-> "pool", arr |-> arr, out |-> <<>>, count |-> 0,
             mediaItemIds |-> <<>>, items |-> <<>>]

\* shuffleArray(arr) with the draws Math.random makes
ShuffleArray ==
  /\ fn.op = "pool"
  /\ \E draws \in Draws(Len(fn.arr)) :
       fn' = [fn EXCEPT !.op = "shuffled", !.out = shuffleArray(fn.arr, draws)]
  /\ UNCHANGED <<server, sw, admin>>

\* the random route from the listed pool on: the selection, the ids saved
\* in the config and the descriptors put in the cache
RandomSelect ==
  /\ fn.op = "pool" /\ fn.arr # <<>>
  /\ \E draws \in Draws(Len(fn.arr)) :
       LET selected == randomSelection(fn.arr, draws) IN
       fn' = [fn EXCEPT !.op = "random", !.out = selected,
                        !.mediaItemIds = IdsOf(selected),
                        !.items = randomItems(selected)]
  /\ UNCHANGED <<server, sw, admin>>

\* shuffle(count) on the shuffled pool: the first count items when count is
\* positive (clamped to the pool size), all of them when it is 0
ShuffleCount(count) ==
  /\ fn.op = "shuffled"
  /\ fn' = [fn EXCEPT !.op = "subset", !.count = count,
                      !.out = IF count > 0 THEN slice(fn.out, count) ELSE fn.out,
                      !.mediaItemIds =
                        IdsOf(IF count > 0 THEN slice(fn.out, count) ELSE fn.out)]
  /\ UNCHANGED <<server, sw, admin>>

NextShuffle ==
  \/ ShuffleArray
  \/ RandomSelect
  \/ \E count \in 0..(MaxPool + 1) : ShuffleCount(count)

SpecShuffle == InitShuffle /\ [][NextShuffle]_vars

\* ------------------------------------- fetchAllMediaItems applied on its own
\* one answer of the vendor to a page request: its items, or a failure
ChainItems == {it \in RawMediaItems : it.mediaFile = NoFile}

VendorPages == [mediaItems : SeqsUpTo(ChainItems, MaxPageLen), ok : BOOLEAN]

\* result.nextPageToken of page i of a chain: the next page, 0 when none
nextPageToken(chain, i) == IF i < Len(chain) THEN i + 1 ELSE 0

\* the vendor holds a finite chain of pages; fetchAllMediaItems has been
\* called and is about to request the first page (pageToken undefined)
InitPages ==
  /\ InitServer
  /\ sw = SwIdle
  /\ admin = AdminIdle
  /\ \E chain \in SeqsUpTo(VendorPages, MaxChain) \ {<<>>} :
       fn = [op |-> "paging", chain |-> chain, at |-> 1, allItems |-> <<>>,
             requests |-> 0, returned |-> <<>>]

\* one turn of the do-while: the answer to getPickerMediaItems(pageToken);
\* a failing page throws, a page with a token asks for the next, the page
\* without one ends the loop
FetchPage ==
  /\ fn.op = "paging"
  /\ LET page == fn.chain[fn.at]
         pageToken == nextPageToken(fn.chain, fn.at)
     IN IF ~page.ok
        THEN fn' = [fn EXCEPT !.op = "failed", !.requests = @ + 1]
        ELSE IF pageToken # 0
        THEN fn' = [fn EXCEPT !.allItems = push(@, page.mediaItems),
                              !.at = pageToken, !.requests = @ + 1]
        ELSE fn' = [fn EXCEPT !.op = "returned", !.requests = @ + 1,
                              !.allItems = push(@, page.mediaItems),
                              !.returned = push(fn.allItems, page.mediaItems)]
  /\ UNCHANGED <<server, sw, admin>>

NextPages == FetchPage

SpecPages == InitPages /\ [][NextPages]_vars /\ WF_vars(FetchPage)

SnapshotItems == {[id |-> i, baseUrl |-> "u1", mimeType |-> "image/jpeg"] : i \in Ids}

\* a request arrives
Start(p) ==
  \/ \E f \in LocalFiles : Upload(p, f)
  \/ OAuthCallback(p)
  \/ Disconnect(p)
  \/ \E photoId \in Ids \cup LocalFiles : Delete(p, photoId)
  \/ Startup(p)
  \/ ListPhotos(p)
  \/ \E sessionId \in SessionIds \cup {""} : Confirm(p, sessionId)
  \/ \E photoId \in Ids : Resolve(p, photoId)
  \/ Random(p)

\* an awaited answer arrives, or the response has been sent
Step(p) ==
  \/ Return(p)
  \/ RefreshToken(p)
  \/ RefreshPage(p)
  \/ ConfirmToken(p)
  \/ ConfirmPage(p)
  \/ ResolveToken(p)
  \/ ResolveFetch(p)
  \/ ResolveRetry(p)
  \/ RandomToken(p)
  \/ RandomPage(p)
  \/ RandomDebug(p)

\* requests served one after the other, each in the first slot
Next ==
  \/ Tick
  \/ \E p \in {1} : Start(p) \/ Step(p)

Spec == Init /\ [][Next]_vars

\* the server with the restore route the two clients call
NextRestore ==
  \/ Next
  \/ \E p \in {1} :
       \E snapshot \in SeqsUpTo(SnapshotItems, MaxSnapshot) \ {<<>>} :
         Restore(p, snapshot)

SpecRestore == Init /\ [][NextRestore]_vars

\* an admin's disconnect, a synchronous handler, is served while another
\* request awaits the token provider or the vendor
NextInterleaved ==
  \/ Next
  \/ req[1].pc \notin {"idle", "done"} /\ Disconnect(2)
  \/ Return(2)

SpecInterleaved == Init /\ [][NextInterleaved]_vars

\* an admin's delete, a synchronous handler, is served while a confirm or
\* a refresh awaits the token provider or the vendor
NextRace ==
  \/ Tick
  \/ \E p \in {1} :
       \/ OAuthCallback(p)
       \/ \E sessionId \in SessionIds : Confirm(p, sessionId)
       \/ ConfirmToken(p)
       \/ ConfirmPage(p)
       \/ ListPhotos(p)
       \/ RefreshToken(p)
       \/ RefreshPage(p)
       \/ Return(p)
  \/ \E photoId \in Ids : Delete(2, photoId)
  \/ Return(2)

SpecRace == Init /\ [][NextRace]_vars

\* two requests that use the token set are served at once: each creates
\* its own OAuth client from the token file as it is when the request
\* starts; a new consent (the OAuth callback) may come in between
NextTokens ==
  \E p \in Procs :
    \/ OAuthCallback(p)
    \/ Random(p)
    \/ RandomToken(p)
    \/ RandomPage(p)
    \/ RandomDebug(p)
    \/ Return(p)

SpecTokens == Init /\ [][NextTokens]_vars

\* ----------------------------------------------- sessions and role gating
\* the whitelists as the environment gives them, and the emails a session
\* cookie may carry (a cookie outlives a change of the whitelists)
ALLOWED_ADMIN_EMAILS == {"Ann@x"}

ALLOWED_VIEWER_EMAILS == {"ann@x", "Bob@x"}

Emails == {"Ann@x", "ann@x", "Bob@x", "bob@x", "eve@x"}

\* String.prototype.toLowerCase on the emails of the model
toLowerCase(e) ==
  CASE e = "Ann@x" -> "ann@x"
    [] e = "Bob@x" -> "bob@x"
    [] OTHER -> e

\* parseEmails: the entries of the variable, lower-cased
parseEmails(entries) == {toLowerCase(e) : e \in entries}

adminEmails == parseEmails(ALLOWED_ADMIN_EMAILS)

viewerEmails == parseEmails(ALLOWED_VIEWER_EMAILS)

\* getRole(email): "admin", "viewer" or "null"
getRole(email) ==
  IF email = "" THEN "null"
  ELSE IF toLowerCase(email) \in adminEmails THEN "admin"
  ELSE IF toLowerCase(email) \in viewerEmails THEN "viewer"
  ELSE "null"

\* variant of requireAuth: any role passes, whatever the route asks for
requireAuthAnyRole(minRole, email) ==
  IF email = "" THEN 401
  ELSE IF getRole(email) = "null" THEN 403
  ELSE 0

\* requireAuth(minRole) applied to a session: 401, 403, or 0 for next()
requireAuth(minRole, email) ==
  IF email = "" THEN 401
  ELSE IF getRole(email) = "null" THEN 403
  ELSE IF minRole = "admin" /\ getRole(email) # "admin" THEN 403
  ELSE 0

\* GET /login/callback: the session is set when the email has a role
Login(e) ==
  /\ req[1].pc = "idle"
  /\ getRole(e) # "null"
  /\ fn' = [fn EXCEPT !.email = e]
  /\ UNCHANGED <<server, sw, admin>>

\* POST /login/logout
Logout ==
  /\ req[1].pc = "idle"
  /\ fn' = [fn EXCEPT !.email = ""]
  /\ UNCHANGED <<server, sw, admin>>

\* the middleware has answered: the handler is not entered
Rejected(p, op, minRole) ==
  /\ req[p].pc = "idle"
  /\ requireAuth(minRole, fn.email) # 0
  /\ Set(p, Done(New(op), requireAuth(minRole, fn.email)))
  /\ UNCHANGED <<tokens, config, photoCache, uploads, now, lastDeleted>>
  /\ UNCHANGED rest

Admitted(minRole) == requireAuth(minRole, fn.email) = 0

AuthDisconnect(p) ==
  \/ Admitted("admin") /\ Disconnect(p)
  \/ Rejected(p, "disconnect", "admin")

AuthDelete(p, photoId) ==
  \/ Admitted("admin") /\ Delete(p, photoId)
  \/ Rejected(p, "delete", "admin")

AuthConfirm(p, sessionId) ==
  \/ Admitted("admin") /\ Confirm(p, sessionId)
  \/ Rejected(p, "confirm", "admin")

AuthRandom(p) ==
  \/ Admitted("admin") /\ Random(p)
  \/ Rejected(p, "random", "admin")

AuthListPhotos(p) ==
  \/ Admitted("viewer") /\ ListPhotos(p)
  \/ Rejected(p, "list", "viewer")

\* a browser holds a session cookie, or none
InitGate ==
  /\ InitServer
  /\ sw = SwIdle
  /\ admin = AdminIdle
  /\ \E e \in Emails \cup {""} : fn = [op |-> "session", email |-> e]

\* the routes as registered: each behind its middleware, the OAuth
\* callback behind none
NextGate ==
  \/ Tick
  \/ \E e \in Emails : Login(e)
  \/ Logout
  \/ \E p \in {1} :
       \/ OAuthCallback(p)
       \/ AuthDisconnect(p)
       \/ \E photoId \in Ids : AuthDelete(p, photoId)
       \/ \E sessionId \in SessionIds : AuthConfirm(p, sessionId)
       \/ AuthRandom(p)
       \/ AuthListPhotos(p)
       \/ RefreshToken(p)
       \/ RefreshPage(p)
       \/ ConfirmToken(p)
       \/ ConfirmPage(p)
       \/ RandomToken(p)
       \/ RandomPage(p)
       \/ RandomDebug(p)
       \/ Return(p)

SpecGate == InitGate /\ [][NextGate]_vars

\* the requests that call the vendor, served one after the other; the
\* server sends a response it has computed and the token provider answers,
\* while nothing makes the vendor answer a page request or an image fetch:
\* no fetch of the server carries a timeout or an abort signal
NextAwait ==
  \/ Tick
  \/ \E p \in {1} :
       \/ OAuthCallback(p)
       \/ \E sessionId \in SessionIds \cup {""} : Confirm(p, sessionId)
       \/ ListPhotos(p)
       \/ \E photoId \in Ids : Resolve(p, photoId)
       \/ RefreshToken(p)
       \/ RefreshPage(p)
       \/ ConfirmToken(p)
       \/ ConfirmPage(p)
       \/ ResolveToken(p)
       \/ ResolveFetch(p)
       \/ ResolveRetry(p)
       \/ Return(p)

AwaitFairness ==
  /\ WF_vars(Return(1))
  /\ WF_vars(RefreshToken(1))
  /\ WF_vars(ConfirmToken(1))
  /\ WF_vars(ResolveToken(1))

SpecAwait == Init /\ [][NextAwait]_vars /\ AwaitFairness

TypeOK ==
  /\ tokens.exists \in BOOLEAN
  /\ config.exists \in BOOLEAN
  /\ photoCache.fetchedAt \in 0..MaxTime
  /\ now \in StartTime..MaxTime
  /\ uploads \subseteq LocalFiles

\* ------------------------------------------------------------ properties
InRefresh(r) == r.pc \in {"rf_token", "rf_pages"}

\* a step taken by a call of refreshCache: its entry (the restart that
\* precedes the startup refresh is not part of the call) or a later step
RefreshStep(p) ==
  \/ InRefresh(req[p]) /\ req'[p] # req[p]
  \/ req'[p].refreshes > req[p].refreshes /\ req'[p].op # "startup"

\* the call of refreshCache made by request p has just returned
RefreshReturned(r) == r.rfOutcome # ""

HasFileRef(it) == it.mediaFile.exists /\ it.mediaFile.baseUrl # ""

\* C1: a refresh that has a config and an access token and whose vendor
\* listing fails, on whichever page, leaves photoCache (items and fetchedAt)
\* as it was before the call: every step of such a call, from its entry to
\* the failing page answer, leaves photoCache unchanged.
C1_VendorFailureKeepsCache ==
  [][\A p \in Procs :
       (/\ RefreshStep(p)
        /\ \/ InRefresh(req'[p])
           \/ req'[p].rfOutcome = "vendor_failed")
       => photoCache' = photoCache]_vars

C1_Witness ==
  \E p \in Procs :
    /\ req[p].rfOutcome = "vendor_failed"
    /\ req[p].pages = 2
    /\ photoCache.items # <<>>
    /\ photoCache.fetchedAt > 0

\* C2: a refresh that finds a config but no access token falls back to the
\* persisted saved snapshot when it is non-empty and empties the cache only
\* when there is none.
C2_NoTokenFallsBackToSnapshot ==
  \A p \in Procs :
    (RefreshReturned(req[p]) /\ req[p].rfOutcome = "no_token")
    => photoCache.items = req[p].config.savedSnapshot

\* C3: refreshCache never raises to its caller, whatever the config, the
\* token provider and the vendor do: no call ends by rejecting, and no
\* request is left without an answer because of it.
C3_RefreshNeverRaises ==
  \A p \in Procs : req[p].rfOutcome # "raised" /\ ~req[p].unhandled

\* the cache a successful picker refresh should hold: the vendor's items
\* with a file reference, in vendor order, cut down to the given ids when
\* `cut` says so
ExpectedItems(mediaItems, cut, ids) ==
  LET keep == SelectSeq(mediaItems,
                LAMBDA it : HasFileRef(it) /\ (cut => it.id \in Range(ids)))
  IN [i \in 1..Len(keep) |->
        [id |-> keep[i].id, baseUrl |-> keep[i].mediaFile.baseUrl,
         mimeType |-> IF keep[i].mediaFile.mimeType = "" THEN "image/jpeg"
                      ELSE keep[i].mediaFile.mimeType]]

PickerRefreshDone(p) == req[p].pc = "rf_pages" /\ req'[p].rfOutcome = "ok"

\* C4 (as claimed): a successful picker refresh caches the resolvable vendor
\* items in vendor order, intersected with selectedIds only when selectedIds
\* is non-empty, and stamps fetchedAt with the time of the refresh.
C4_IntersectsOnlyWhenNonEmpty ==
  [][\A p \in Procs :
       PickerRefreshDone(p) =>
         photoCache' =
           [items |-> ExpectedItems(req'[p].allItems,
                                    req'[p].config.mediaItemIds # <<>>,
                                    req'[p].config.mediaItemIds),
            fetchedAt |-> now]]_vars

\* C4 (amended): a successful picker refresh caches the resolvable vendor
\* items in vendor order, intersected with selectedIds whenever the config
\* holds a selectedIds list, the empty list included (the cache is then
\* empty), and stamps fetchedAt with the time of the refresh.
C4_IntersectsWheneverListed ==
  [][\A p \in Procs :
       PickerRefreshDone(p) =>
         photoCache' =
           [items |-> ExpectedItems(req'[p].allItems,
                                    req'[p].config.hasIds,
                                    req'[p].config.mediaItemIds),
            fetchedAt |-> now]]_vars

C4_Witness ==
  \E p \in Procs :
    /\ RefreshReturned(req[p]) /\ req[p].rfOutcome = "ok"
    /\ req[p].config.mediaItemIds = <<>>
    /\ \E i \in 1..Len(req[p].allItems) : HasFileRef(req[p].allItems[i])
    /\ photoCache.items = <<>>
    /\ photoCache.fetchedAt > 0

\* C5: after a successful confirm, whatever mix of items with and without a
\* file reference the vendor returned, the cache holds exactly the items
\* with a file reference and the persisted selectedIds is exactly the ids of
\* those cached items.
C5_ConfirmSelectsCachedIds ==
  \A p \in Procs :
    (req[p].op = "confirm" /\ req[p].pc = "done" /\ req[p].status = 200)
    => /\ photoCache.items = ExpectedItems(req[p].allItems, FALSE, <<>>)
       /\ config.mediaItemIds = IdsOf(photoCache.items)

CachedIds == {photoCache.items[i].id : i \in 1..Len(photoCache.items)}

\* C6: after a delete of a vendor photo has succeeded the id is in neither
\* photoCache.items nor the persisted selectedIds, and a later refresh does
\* not bring it back: selectedIds gains ids only by a confirm or a random
\* selection, and what a refresh caches is drawn from selectedIds.
C6_DeletedStaysDeleted ==
  \A p \in Procs :
    /\ (req[p].op = "delete" /\ req[p].pc = "done" /\ req[p].status = 200
        /\ req[p].photoId \in Ids)
       => (req[p].photoId \notin CachedIds
           /\ req[p].photoId \notin Range(config.mediaItemIds))
    /\ (RefreshReturned(req[p]) /\ req[p].rfOutcome \in {"ok", "drive"})
       => CachedIds \subseteq Range(config.mediaItemIds)

\* C7: a delete of the id that the request just before it deleted answers
\* 404 and leaves photoCache and the persisted config as they were.
C7_SecondDeleteNotFound ==
  [][\A p \in Procs :
       (/\ req[p].pc = "idle"
        /\ req'[p].op = "delete"
        /\ req'[p].prevDeleted = req'[p].photoId)
       => (req'[p].status = 404 /\ UNCHANGED <<photoCache, config, uploads>>)]_vars

\* C8: photoCache.items never holds two descriptors with the same id.
C8_NoDuplicateIds == NoDuplicateIds(photoCache.items)

Resets == {"no_config", "no_token", "no_session"}

C10_ResolveRetriesOnce ==
  \A p \in Procs :
    LET r == req[p] IN
    r.op = "resolve" =>
      /\ r.fetches <= 2
      /\ r.refreshes <= 1
      /\ r.refreshes = 1 => r.firstStatus \in {401, 403}
      /\ r.fetches = 2 => (r.refreshes = 1 /\ r.refreshedItem.id = r.photoId)
      /\ (r.pc = "done" /\ r.retryStatus = 200)
         => /\ r.status = 200
            /\ r.respBytes = BytesAt(r.refreshedItem.baseUrl)
            /\ r.respMime = r.refreshedItem.mimeType

C10_Witness ==
  \E p \in Procs :
    /\ req[p].op = "resolve" /\ req[p].pc = "done"
    /\ req[p].fetches = 2 /\ req[p].refreshes = 1
    /\ req[p].retryStatus = 200
    /\ req[p].refreshedItem.baseUrl # req[p].item.baseUrl
    /\ req[p].respMime # req[p].item.mimeType

\* C11: when the first fetch of a resolve answered 401 or 403 and the retry
\* after the refresh failed too, the caller gets the status of the failed
\* retry, whatever the two statuses are.
C11_RetryStatusPassedThrough ==
  \A p \in Procs :
    LET r == req[p] IN
    (/\ r.op = "resolve" /\ r.pc = "done"
     /\ r.firstStatus \in {401, 403}
     /\ r.retryStatus \notin {0, 200})
    => r.status = r.retryStatus

\* a request of kind op starts at slot p in this step
Starts(p, op) == req[p].pc = "idle" /\ req'[p].op = op

\* C13: a resolve of an id that is not in photoCache.items answers 404 at
\* once: no token is asked for, no vendor call is made, and tokens, config
\* and photoCache stay as they were.
C13_ResolveUnknownIdNotFound ==
  [][\A p \in Procs :
       (Starts(p, "resolve") /\ req'[p].photoId \notin CachedIds)
       => /\ req'[p].pc = "done" /\ req'[p].status = 404
          /\ req'[p].fetches = 0 /\ req'[p].refreshes = 0
          /\ UNCHANGED <<tokens, config, photoCache>>]_vars

C13_Witness ==
  \E p \in Procs :
    /\ req[p].op = "resolve" /\ req[p].pc = "done" /\ req[p].status = 404
    /\ req[p].fetches = 0
    /\ photoCache.items # <<>>
    /\ req[p].photoId \notin CachedIds

\* C14: in whatever state it is served, also with tokens or config already
\* absent or another request in flight, disconnect answers 200 and leaves
\* no tokens, no config, and photoCache = {items: [], fetchedAt: 0}.
C14_DisconnectClearsAll ==
  [][\A p \in Procs :
       Starts(p, "disconnect")
       => /\ req'[p].pc = "done" /\ req'[p].status = 200
          /\ tokens' = NoTokens
          /\ config' = NoConfig
          /\ photoCache' = [items |-> <<>>, fetchedAt |-> 0]]_vars

\* a disconnect has just been served while a refresh that had read a
\* config over a populated cache is still awaiting the vendor
C14_Witness ==
  /\ req[2].op = "disconnect" /\ req[2].pc = "done"
  /\ req[1].pc = "rf_pages" /\ req[1].config.exists
  /\ ~tokens.exists /\ ~config.exists /\ photoCache.items = <<>>

\* C15: a list request calls refreshCache exactly when the cache is older
\* than the TTL, strictly, and a config exists; otherwise it makes no
\* vendor call, leaves photoCache alone and answers the cached ids.
C15_ListRefreshesOnlyWhenStale ==
  [][\A p \in Procs :
       Starts(p, "list")
       => IF now - photoCache.fetchedAt > CACHE_TTL_MS /\ config.exists
          THEN req'[p].refreshes = 1
          ELSE /\ req'[p].refreshes = 0
               /\ req'[p].pc = "done" /\ req'[p].status = 200
               /\ req'[p].respItems = IdsOf(photoCache.items)
               /\ UNCHANGED <<tokens, config, photoCache>>]_vars

\* a list request answered from a cache exactly one TTL old
C15_Witness ==
  \E p \in Procs :
    /\ req[p].op = "list" /\ req[p].pc = "done" /\ req[p].refreshes = 0
    /\ config.exists
    /\ photoCache.items # <<>>
    /\ now - photoCache.fetchedAt = CACHE_TTL_MS
    /\ req[p].respItems = IdsOf(photoCache.items)

\* how many times x occurs in the sequence s
Count(s, x) == Cardinality({i \in 1..Len(s) : s[i] = x})

\* t takes no element more often than s holds it
SubBag(t, s) == \A x \in Range(t) : Count(t, x) <= Count(s, x)

SameBag(t, s) == SubBag(t, s) /\ SubBag(s, t)

TokenStep(p) ==
  /\ req[p].pc \in {"rf_token", "cf_token", "rs_token", "rd_token"}
  /\ req'[p] # req[p]

\* C18: a renewal never writes an older value back: the token file holds
\* the access token the renewal issued, and its refresh token changes only
\* to one the renewal answer carries, never back to the one the request's
\* client was created with, also when another request or a new consent
\* has saved a newer token set in the meantime.
C18_RenewalKeepsNewestTokens ==
  [][\A p \in Procs :
       (TokenStep(p) /\ tokens' # tokens)
       => /\ tokens'.access_token # req[p].tokens.access_token
          /\ tokens'.refresh_token # tokens.refresh_token
             => tokens'.refresh_token # req[p].tokens.refresh_token]_vars

\* the items of the first n pages of a chain, in page order
RECURSIVE Concat(_, _)
Concat(chain, n) ==
  IF n = 0 THEN <<>> ELSE Concat(chain, n - 1) \o chain[n].mediaItems

\* the first failing page of a chain, 0 when every page answers
FirstFailure(chain) ==
  IF \A i \in 1..Len(chain) : chain[i].ok THEN 0
  ELSE CHOOSE i \in 1..Len(chain) :
         ~chain[i].ok /\ \A j \in 1..(i - 1) : chain[j].ok

\* C19: fetchAllMediaItems asks for one page per token, stops at the first
\* page without a nextPageToken and returns the items of every page in
\* page order; when a page request fails the call fails at that page and
\* returns no list; on a finite chain the call always ends.
C19_FollowsPagesToTheEnd ==
  /\ [](fn.op = "returned"
          => /\ FirstFailure(fn.chain) = 0
             /\ fn.requests = Len(fn.chain)
             /\ fn.returned = Concat(fn.chain, Len(fn.chain)))
  /\ [](fn.op = "failed"
          => /\ fn.requests = FirstFailure(fn.chain)
             /\ fn.returned = <<>>)
  /\ [](fn.op = "paging" => fn.requests = fn.at - 1)
  /\ <>(fn.op \in {"returned", "failed"})

\* three pages were followed and their items returned in page order
C19_Witness ==
  /\ fn.op = "returned" /\ Len(fn.chain) = 3
  /\ Len(fn.returned) = 3
  /\ fn.returned[1] # fn.returned[2]

\* C12: once a resolve of an id has returned bytes, a later resolve of the
\* same id is answered from the byte cache: no request for an id whose
\* bytes were already delivered goes on to the server and the vendor, also
\* when it comes right after the first response.
C12_SecondResolveFromByteCache ==
  [][\A c \in Procs :
       (sw.inflight[c].pc = "idle" /\ sw'.inflight[c].pc # "idle"
        /\ sw'.inflight[c].id \in sw.delivered)
       => sw'.inflight[c].from = "cache"]_vars

\* C16: a restore that finds photoCache.items non-empty changes nothing:
\* items, fetchedAt and the persisted config are as before the call,
\* whatever snapshot the client sends and whatever list and restore
\* requests came before.
C16_RestoreKeepsPopulatedCache ==
  [][\A p \in Procs :
       (Starts(p, "restore") /\ photoCache.items # <<>>)
       => UNCHANGED <<photoCache, config>>]_vars

\* a restore has been answered over a cache that an earlier request filled
\* from the vendor and that still holds those items
C16_Witness ==
  /\ req[1].op = "restore" /\ req[1].pc = "done"
  /\ photoCache.items # <<>>
  /\ photoCache.fetchedAt < now
  /\ config.exists /\ config.savedSnapshot = <<>>

\* C20: the polling of a pick goes on until one of its polls reports
\* mediaItemsSet or 10 minutes have passed since the pick started: an
\* interval that is no longer set belongs to a pick that has reported or has
\* reached its own ceiling; polling errors do not clear it and neither does
\* the timer of an earlier pick.
C20_PollsUntilSetOrCeiling ==
  \A k \in admin.polling :
    k \notin admin.intervals
    => \/ k \in admin.reported
       \/ admin.clock >= admin.startedAt[k] + PickTimeout

\* C21: no operation blocks for ever: a request that has started (a list
\* with its refresh, a confirm, a resolve) is eventually answered, also when
\* the vendor never answers one of its calls.
C21_EveryRequestCompletes ==
  \A p \in Procs : (req[p].pc \notin {"idle", "done"}) ~> (req[p].pc = "done")

\* C22: a refresh that finds no config ends at once with the cache reset
\* to no items and fetchedAt 0: no token is asked for (the token file is
\* not touched, the call never waits for the token provider) and no page
\* is requested from the vendor.
C22_NoConfigResetsCache ==
  [][\A p \in Procs :
       (RefreshStep(p) /\ ~config.exists /\ ~InRefresh(req[p]))
       => /\ photoCache' = EmptyCache
          /\ tokens' = tokens
          /\ req'[p].rfOutcome = "no_config"
          /\ ~InRefresh(req'[p])
          /\ req'[p].pages = req[p].pages]_vars

\* a resolve whose image URL had expired has called refresh after the
\* config was removed
C22_Witness ==
  /\ req[1].op = "resolve"
  /\ req[1].rfOutcome = "no_config"
  /\ req[1].item # NoItem
  /\ ~config.exists
  /\ photoCache = EmptyCache

\* the role the whitelists give an email, compared without regard to case,
\* admin first
RoleOf(email) ==
  IF \E a \in ALLOWED_ADMIN_EMAILS : toLowerCase(a) = toLowerCase(email)
  THEN "admin"
  ELSE IF \E v \in ALLOWED_VIEWER_EMAILS : toLowerCase(v) = toLowerCase(email)
  THEN "viewer"
  ELSE "none"

AdminOps == {"disconnect", "delete", "confirm", "random"}

ViewerOps == {"list"}

\* C23: a handler behind requireAuth("admin") runs only for a session
\* whose email is on the admin whitelist, one behind requireAuth("viewer")
\* only for an email on either whitelist (admin first, case ignored);
\* otherwise the request ends with 401 (no session email) or 403 and
\* tokens, config, cache and uploads are untouched; a session with the
\* role is let through.
C23_RoleGating ==
  [][\A p \in Procs :
       (req[p].pc = "idle" /\ req'[p].op \in AdminOps \cup ViewerOps) =>
         LET ok == \/ RoleOf(fn.email) = "admin" /\ fn.email # ""
                   \/ /\ req'[p].op \in ViewerOps
                      /\ RoleOf(fn.email) = "viewer" /\ fn.email # ""
         IN IF ok
            THEN ~(req'[p].pc = "done" /\ req'[p].status \in {401, 403})
            ELSE /\ req'[p].pc = "done"
                 /\ req'[p].status = IF fn.email = "" THEN 401 ELSE 403
                 /\ UNCHANGED <<tokens, config, photoCache, uploads>>]_vars

\* a viewer's disconnect has been refused while tokens, a config and a
\* cache were there to lose
C23_Witness ==
  /\ req[1].op = "disconnect" /\ req[1].status = 403
  /\ getRole(fn.email) = "viewer"
  /\ tokens.exists /\ config.exists /\ photoCache.items # <<>>

\* a step in which a request's OAuth client hands back the access token,
\* renewed or not
TokenAnswer(p) == req[p].pc \in {"rf_token", "cf_token", "rs_token", "rd_token"}

\* C24: the token file and the config file are created, replaced or removed
\* only by requests that carry an admin session; the renewal of the access
\* token inside getAccessToken is the one exception.
C24_OnlyAdminWritesTokensAndConfig ==
  [][(fn.email = "" \/ RoleOf(fn.email) # "admin")
     => /\ config' = config
        /\ tokens' = tokens \/ \E p \in Procs : TokenAnswer(p)]_vars

\* a disconnect has been answered and nothing has been stored since
Disconnected ==
  /\ \E q \in Procs : req[q].op = "disconnect" /\ req[q].pc = "done"
  /\ ~tokens.exists /\ ~config.exists /\ photoCache = EmptyCache

\* C25: after a disconnect has returned, tokens and config stay absent and
\* the cache stays empty until a request started after it stores something
\* again: from the disconnected state the first write is made by a new
\* OAuth callback (a confirm or a random selection needs its tokens), never
\* by a request that was already in flight when the disconnect ran.
C25_DisconnectIsFinal ==
  [][Disconnected
     => \/ UNCHANGED <<tokens, config, photoCache>>
        \/ \E p \in Procs : Starts(p, "callback")]_vars

Quiescent == \A p \in Procs : req[p].pc \in {"idle", "done"}

\* C26: whenever no request is in flight, every id in photoCache.items is
\* one of the ids persisted in the config (mediaItemIds), and the cache is
\* empty when there is no config, whatever the interleaving of refresh,
\* confirm, delete and disconnect.
C26_CacheWithinPersistedIds ==
  Quiescent =>
    IF config.exists
    THEN Range(IdsOf(photoCache.items)) \subseteq Range(config.mediaItemIds)
    ELSE photoCache.items = <<>>

\* a step of the confirm request in slot p
ConfirmStep(p) ==
  /\ req'[p] # req[p]
  /\ req'[p].op = "confirm"
  /\ req[p].pc \in {"idle", "cf_token", "cf_pages"}

\* C27: a confirm that fails changes nothing: every step of a confirm
\* other than its successful end leaves photoCache (items and fetchedAt)
\* and the persisted config as they were, and a confirm that does not
\* answer 200 answers 400 (no sessionId), 401 (no access token) or 500.
C27_FailedConfirmChangesNothing ==
  [][\A p \in Procs :
       ConfirmStep(p) =>
         \/ req'[p].pc = "done" /\ req'[p].status = 200
         \/ /\ UNCHANGED <<photoCache, config>>
            /\ req'[p].pc = "done" => req'[p].status \in {400, 401, 500}]_vars

\* a confirm has failed on its second page over a populated cache
C27_Witness ==
  /\ req[1].op = "confirm" /\ req[1].pc = "done" /\ req[1].status = 500
  /\ req[1].pages = 2
  /\ photoCache.items # <<>> /\ config.exists

\* C28: for one pick the admin page sends the confirm request at most
\* once, also when several of its polls are in flight at the same time.
C28_ConfirmSentOnce ==
  \A k \in Picks : admin.confirms[k] <= 1

\* C29: the pick button, disabled by a click, is enabled again on every
\* path: it is never left disabled for ever.
C29_ButtonEnabledAgain ==
  admin.disabled ~> ~admin.disabled

\* C30: while the slideshow is paused the slide index does not change and
\* no advance timer is pending, whatever taps, timer firings and photo list
\* polls come in; and at most one advance timer is pending at any time.
C30_PausedShowStandsStill ==
  [][/\ (fn.paused /\ fn'.paused) => fn'.currentIndex = fn.currentIndex
     /\ fn'.paused => fn'.timers = {}
     /\ Cardinality(fn'.timers) <= 1]_vars

====
